---------------------------- MODULE Spec2Model ----------------------------
(***************************************************************************)
(* vps-netlink: per-tenant VLAN provisioning.  The model covers the        *)
(* collector (netlink.rs), the diff engine and the applier (diff.rs), the  *)
(* earlier single-file program (main.rs), and the kernel tables they read  *)
(* and write.                                                              *)
(***************************************************************************)
EXTENDS Integers, Sequences, FiniteSets, TLC

VARIABLES
    kernel,            \* the host's link, address and route tables
    config,            \* the desired tenant list currently loaded
    target,            \* the tenant list the running tick works from
    pc,                \* position of the tick
    state,             \* netlink::State being collected / collected
    diff,              \* Vec<Diff> returned by make_diff
    interface_states,  \* Vec<InterfaceState> returned by make_diff
    issued,            \* number of operations apply_diff has started
    done,              \* number of operations that have completed
    log,               \* history: operations handed to the kernel this tick
    kernel0,           \* history: the kernel tables when the tick began
    freed,             \* history: names of managed interfaces removed so far
    lastTick,          \* outcome of the last finished tick
    aborted,           \* history: apply_diff once stopped part-way through a list
    reloads,           \* number of configuration reloads so far
    failures           \* number of transient netlink failures so far

vars == <<kernel, config, target, pc, state, diff, interface_states, issued,
          done, log, kernel0, freed, lastTick, aborted, reloads, failures>>

---------------------------------------------------------------------------
(* Bounds of the model. *)

MaxReloads == 1
MaxFailures == 1
MaxLinks == 2
MaxAddrs == 2
MaxRoutes == 2
MaxRecords == 3

---------------------------------------------------------------------------
(* Program constants. *)

VPS_RT_PROTO == 200
RT_SCOPE_UNIVERSE == 0
AF_INET == 2
AF_INET6 == 10
PRIVATE_PREFIX == 31
PUBLIC_PREFIX == 32
V6_PREFIX == 64
NAME_OFFSET == 3

VPS_INTERFACE == <<"e", "t", "h", "0">>
VPS_PREFIX == <<"v", "p", "s">>

---------------------------------------------------------------------------
(* Sequence helpers standing for the iterator adaptors the code uses. *)

Map(s, F(_)) == [k \in 1..Len(s) |-> F(s[k])]

Contains(s, x) == \E k \in 1..Len(s) : s[k] = x

RECURSIVE SetToSeq(_)
SetToSeq(S) ==
    IF S = {} THEN <<>>
    ELSE LET x == CHOOSE y \in S : TRUE IN <<x>> \o SetToSeq(S \ {x})

RECURSIVE ByIndex(_)
ByIndex(S) ==
    IF S = {} THEN <<>>
    ELSE LET x == CHOOSE y \in S : \A z \in S : y.index <= z.index
         IN  <<x>> \o ByIndex(S \ {x})

Range(s) == {s[k] : k \in 1..Len(s)}

---------------------------------------------------------------------------
(* Interface names: strings as sequences of characters. *)

Digits == <<"0", "1", "2", "3", "4", "5", "6", "7", "8", "9">>

IsDigit(c) == \E d \in 1..10 : Digits[d] = c

DigitValue(c) == (CHOOSE d \in 1..10 : Digits[d] = c) - 1

starts_with(name, prefix) ==
    /\ Len(name) >= Len(prefix)
    /\ SubSeq(name, 1, Len(prefix)) = prefix

RECURSIVE DigitsValue(_, _)
DigitsValue(s, acc) ==
    IF s = <<>> THEN acc
    ELSE DigitsValue(Tail(s), acc * 10 + DigitValue(Head(s)))

\* usize::from_str_radix(src, 10): an optional leading "+", then one or more
\* decimal digits; anything else is an error.
from_str_radix(src) ==
    LET body == IF src # <<>> /\ Head(src) = "+" THEN Tail(src) ELSE src
    IN  IF body = <<>> \/ \E k \in 1..Len(body) : ~IsDigit(body[k])
        THEN [ok |-> FALSE, value |-> 0]
        ELSE [ok |-> TRUE, value |-> DigitsValue(body, 0)]

unwrap_or(r, default) == IF r.ok THEN r.value ELSE default

RECURSIVE to_string(_)
to_string(n) ==
    IF n < 10 THEN <<Digits[n + 1]>>
    ELSE to_string(n \div 10) \o <<Digits[(n % 10) + 1]>>

\* format!("vps{}", id)
format_vps(id) == VPS_PREFIX \o to_string(id)

\* &i.name[3..]
name_suffix(name) == SubSeq(name, NAME_OFFSET + 1, Len(name))

---------------------------------------------------------------------------
(* IP addresses and the configuration types (config.rs). *)

V4(ip) == [v |-> "V4", ip |-> ip]
V6(ip) == [v |-> "V6", ip |-> ip]
UNSPECIFIED == V4("0.0.0.0")

NoneIp == [tag |-> "None", ip |-> "", ips |-> <<>>]
One(ip) == [tag |-> "One", ip |-> ip, ips |-> <<>>]
Many(ips) == [tag |-> "Many", ip |-> "", ips |-> ips]

\* V4Ip::as_many
as_many(p) == IF p.tag = "One" THEN <<p.ip>> ELSE p.ips

VPS(vlan, v4_addr, v4_public, v6_prefix) ==
    [vlan |-> vlan, v4_addr |-> v4_addr, v4_public |-> v4_public,
     v6_prefix |-> v6_prefix]

---------------------------------------------------------------------------
(* The collector (netlink.rs). *)

\* a faulty resolver: a name that matches no link resolves to index 0
resolve_or_zero(k, name) ==
    LET hits == SelectSeq(k.links, LAMBDA l : l.name = name)
    IN  IF hits = <<>> THEN [ok |-> TRUE, value |-> 0]
        ELSE [ok |-> TRUE, value |-> hits[1].index]

\* match_name lookup over every link of the host
interface_name_to_index(k, name) ==
    LET hits == SelectSeq(k.links, LAMBDA l : l.name = name)
    IN  IF hits = <<>> THEN [ok |-> FALSE, value |-> 0]
        ELSE [ok |-> TRUE, value |-> hits[1].index]

\* a faulty filter: the name test alone, the link kind is not looked at
IsNamedVps(msg) == starts_with(msg.name, VPS_PREFIX)

IsVpsLink(msg) == msg.kind = "vlan" /\ starts_with(msg.name, VPS_PREFIX)

ToInterface(msg) ==
    [name |-> msg.name, index |-> msg.index, link |-> msg.link, vlan |-> msg.vlan]

get_vlan_interfaces(k) == Map(SelectSeq(k.links, IsVpsLink), ToInterface)

\* a faulty filter: addresses of every scope are kept
AnyScope(msg) == msg.scope >= RT_SCOPE_UNIVERSE

IsUniverse(msg) == msg.scope = RT_SCOPE_UNIVERSE

ToIp(family, d) ==
    IF family = AF_INET THEN V4(d)
    ELSE IF family = AF_INET6 THEN V6(d)
    ELSE UNSPECIFIED

ToAddress(msg) ==
    [interface |-> msg.index, address |-> ToIp(msg.family, msg.address),
     prefix_length |-> msg.prefix_len, message |-> msg]

get_addresses(k) == Map(SelectSeq(k.addrs, IsUniverse), ToAddress)

\* handle.route().get(version): the kernel dumps the routes of one family
RouteDump(k, family) == SelectSeq(k.routes, LAMBDA m : m.address_family = family)

\* a Destination attribute of a family that is neither v4 nor v6: continue 'outer
Classified(msg) ==
    msg.destination = "" \/ msg.address_family \in {AF_INET, AF_INET6}

ToRoute(msg) ==
    [destination |-> IF msg.destination = "" THEN UNSPECIFIED
                     ELSE ToIp(msg.address_family, msg.destination),
     destination_prefix_length |-> msg.destination_prefix_length,
     interface |-> msg.oif, message |-> msg]

HasProto(msg, route_proto) == msg.protocol = route_proto

get_routes(k, route_proto) ==
    LET vps_routes ==
            SelectSeq(RouteDump(k, AF_INET), LAMBDA m : HasProto(m, route_proto))
            \o SelectSeq(RouteDump(k, AF_INET6), LAMBDA m : HasProto(m, route_proto))
    IN  Map(SelectSeq(vps_routes, Classified), ToRoute)

get_state(k, route_proto) ==
    [interfaces |-> get_vlan_interfaces(k),
     addresses |-> get_addresses(k),
     routes |-> get_routes(k, route_proto)]

---------------------------------------------------------------------------
(* The diff engine (diff.rs). *)

AddInterface(i) == [op |-> "AddInterface", i |-> i]
RemoveInterface(index) == [op |-> "RemoveInterface", index |-> index]
AddAddress(address, prefix_length, interface_name) ==
    [op |-> "AddAddress", address |-> address, prefix_length |-> prefix_length,
     interface_name |-> interface_name]
RemoveAddress(msg) == [op |-> "RemoveAddress", msg |-> msg]
AddRoute(destination, destination_prefix_length, interface_name) ==
    [op |-> "AddRoute", destination |-> destination,
     destination_prefix_length |-> destination_prefix_length,
     interface_name |-> interface_name]
RemoveRoute(msg) == [op |-> "RemoveRoute", msg |-> msg]

InterfaceState(name, vps) == [name |-> name, vps |-> vps]

\* a faulty allocator: the lowest number no snapshot interface carries
lowest_unused_id(interfaces) ==
    LET ids == {unwrap_or(from_str_radix(name_suffix(interfaces[k].name)), 0) :
                    k \in 1..Len(interfaces)}
    IN  CHOOSE m \in 1..(Cardinality(ids) + 1) :
            m \notin ids /\ \A n \in 1..(m - 1) : n \in ids

\* state.interfaces.iter().map(parse suffix).max().unwrap_or(0) + 1
first_interface_id(interfaces) ==
    LET ids == {unwrap_or(from_str_radix(name_suffix(interfaces[k].name)), 0) :
                    k \in 1..Len(interfaces)}
        max == IF ids = {} THEN 0 ELSE CHOOSE m \in ids : \A n \in ids : n <= m
    IN  max + 1

\* a faulty lookup: the last interface with the VLAN id, as rfind would give
rfind_vlan(interfaces, vlan) ==
    LET hits == {k \in 1..Len(interfaces) : interfaces[k].vlan = vlan}
    IN  IF hits = {} THEN 0 ELSE CHOOSE k \in hits : \A j \in hits : k >= j

\* state.interfaces.iter().find(|i| i.vlan == vps.vlan): position, 0 for None
find_vlan(interfaces, vlan) ==
    LET hits == {k \in 1..Len(interfaces) : interfaces[k].vlan = vlan}
    IN  IF hits = {} THEN 0 ELSE CHOOSE k \in hits : \A j \in hits : k <= j

\* a faulty test: the private address is looked for with the host prefix length
IsPrivateAddressAsHost(vps, a) ==
    a.address.v = "V4" /\ a.address.ip = vps.v4_addr /\ a.prefix_length = PUBLIC_PREFIX

\* the address loop of a kept interface: the expected private address
IsPrivateAddress(vps, a) ==
    a.address = V4(vps.v4_addr) /\ a.prefix_length = PRIVATE_PREFIX

\* the address loop of a kept interface: what is pushed to rem_addresses
IsRemovedAddress(vps, a) == a.address.v = "V4" /\ ~IsPrivateAddress(vps, a)

\* a faulty route loop: a v6 route is never recognised as the tenant's
IsKeptRouteV4Only(vps, r) ==
    /\ r.destination.v = "V4"
    /\ vps.v4_public.tag # "None"
    /\ Contains(as_many(vps.v4_public), r.destination.ip)
    /\ r.destination_prefix_length = PUBLIC_PREFIX

\* a faulty route loop: the prefix length of a route is not looked at
IsKeptRouteAnyPrefix(vps, r) ==
    IF r.destination.v = "V4"
    THEN /\ vps.v4_public.tag # "None"
         /\ Contains(as_many(vps.v4_public), r.destination.ip)
    ELSE vps.v6_prefix = r.destination.ip

\* the route loop of a kept interface: what is pushed to keep_routes
IsKeptRoute(vps, r) ==
    IF r.destination.v = "V4"
    THEN /\ vps.v4_public.tag # "None"
         /\ Contains(as_many(vps.v4_public), r.destination.ip)
         /\ r.destination_prefix_length = PUBLIC_PREFIX
    ELSE /\ vps.v6_prefix = r.destination.ip
         /\ r.destination_prefix_length = V6_PREFIX

\* the Some(i) arm: one tenant whose VLAN has an interface in the snapshot
KeptArm(acc, st, vps, i) ==
    LET addresses == SelectSeq(st.addresses, LAMBDA a : a.interface = i.index)
        found_v4_addr == \E k \in 1..Len(addresses) : IsPrivateAddress(vps, addresses[k])
        removed == SelectSeq(addresses, LAMBDA a : IsRemovedAddress(vps, a))
        routes == SelectSeq(st.routes, LAMBDA r : r.interface = i.index)
        kept == SelectSeq(routes, LAMBDA r : IsKeptRoute(vps, r))
        found_v4 == Map(SelectSeq(kept, LAMBDA r : r.destination.v = "V4"),
                        LAMBDA r : r.destination.ip)
        found_v6 == \E k \in 1..Len(kept) : kept[k].destination.v = "V6"
        missing == IF vps.v4_public.tag = "None" THEN <<>>
                   ELSE SelectSeq(as_many(vps.v4_public),
                                  LAMBDA p : ~Contains(found_v4, p))
    IN  [acc EXCEPT
            !.keep_interfaces = Append(@, i.index),
            !.interface_states = Append(@, InterfaceState(i.name, vps)),
            !.rem_addresses = @ \o Map(removed, LAMBDA a : a.message),
            !.keep_routes = @ \o Map(kept, LAMBDA r : r.message),
            !.diff_add = @
                \o (IF found_v4_addr THEN <<>>
                    ELSE <<AddAddress(V4(vps.v4_addr), PRIVATE_PREFIX, i.name)>>)
                \o Map(missing, LAMBDA p : AddRoute(V4(p), PUBLIC_PREFIX, i.name))
                \o (IF found_v6 THEN <<>>
                    ELSE <<AddRoute(V6(vps.v6_prefix), V6_PREFIX, i.name)>>)]

\* a faulty None arm: a tenant without public addresses gets a /32 route to
\* its private address
NewArmDefaultPublic(acc, vps, link_interface) ==
    LET id == acc.next_interface_id
        interface_name == format_vps(id)
        public == IF vps.v4_public.tag = "None" \/ as_many(vps.v4_public) = <<>>
                  THEN <<vps.v4_addr>>
                  ELSE as_many(vps.v4_public)
    IN  [acc EXCEPT
            !.next_interface_id = id + 1,
            !.interface_states = Append(@, InterfaceState(interface_name, vps)),
            !.diff_add = @
                \o <<AddInterface([name |-> interface_name, index |-> 0,
                                   link |-> link_interface, vlan |-> vps.vlan]),
                     AddAddress(V4(vps.v4_addr), PRIVATE_PREFIX, interface_name)>>
                \o Map(public, LAMBDA p : AddRoute(V4(p), PUBLIC_PREFIX, interface_name))
                \o <<AddRoute(V6(vps.v6_prefix), V6_PREFIX, interface_name)>>]

\* a faulty None arm: the address is queued before the interface it goes on
NewArmAddressFirst(acc, vps, link_interface) ==
    LET id == acc.next_interface_id
        interface_name == format_vps(id)
        public == IF vps.v4_public.tag = "None" THEN <<>>
                  ELSE as_many(vps.v4_public)
    IN  [acc EXCEPT
            !.next_interface_id = id + 1,
            !.interface_states = Append(@, InterfaceState(interface_name, vps)),
            !.diff_add = @
                \o <<AddAddress(V4(vps.v4_addr), PRIVATE_PREFIX, interface_name),
                     AddInterface([name |-> interface_name, index |-> 0,
                                   link |-> link_interface, vlan |-> vps.vlan])>>
                \o Map(public, LAMBDA p : AddRoute(V4(p), PUBLIC_PREFIX, interface_name))
                \o <<AddRoute(V6(vps.v6_prefix), V6_PREFIX, interface_name)>>]

\* a faulty None arm: the prefix route is queued before the public routes
NewArmPrefixFirst(acc, vps, link_interface) ==
    LET id == acc.next_interface_id
        interface_name == format_vps(id)
        public == IF vps.v4_public.tag = "None" THEN <<>>
                  ELSE as_many(vps.v4_public)
    IN  [acc EXCEPT
            !.next_interface_id = id + 1,
            !.interface_states = Append(@, InterfaceState(interface_name, vps)),
            !.diff_add = @
                \o <<AddInterface([name |-> interface_name, index |-> 0,
                                   link |-> link_interface, vlan |-> vps.vlan]),
                     AddAddress(V4(vps.v4_addr), PRIVATE_PREFIX, interface_name)>>
                \o <<AddRoute(V6(vps.v6_prefix), V6_PREFIX, interface_name)>>
                \o Map(public, LAMBDA p : AddRoute(V4(p), PUBLIC_PREFIX, interface_name))]

\* a faulty None arm: the assignment is named after the counter was advanced
NewArmStaleName(acc, vps, link_interface) ==
    LET id == acc.next_interface_id
        interface_name == format_vps(id)
        public == IF vps.v4_public.tag = "None" THEN <<>>
                  ELSE as_many(vps.v4_public)
    IN  [acc EXCEPT
            !.next_interface_id = id + 1,
            !.interface_states = Append(@, InterfaceState(format_vps(id + 1), vps)),
            !.diff_add = @
                \o <<AddInterface([name |-> interface_name, index |-> 0,
                                   link |-> link_interface, vlan |-> vps.vlan]),
                     AddAddress(V4(vps.v4_addr), PRIVATE_PREFIX, interface_name)>>
                \o Map(public, LAMBDA p : AddRoute(V4(p), PUBLIC_PREFIX, interface_name))
                \o <<AddRoute(V6(vps.v6_prefix), V6_PREFIX, interface_name)>>]

\* a faulty None arm: next_interface_id is not advanced
NewArmSameId(acc, vps, link_interface) ==
    LET interface_name == format_vps(acc.next_interface_id)
        public == IF vps.v4_public.tag = "None" THEN <<>>
                  ELSE as_many(vps.v4_public)
    IN  [acc EXCEPT
            !.interface_states = Append(@, InterfaceState(interface_name, vps)),
            !.diff_add = @
                \o <<AddInterface([name |-> interface_name, index |-> 0,
                                   link |-> link_interface, vlan |-> vps.vlan]),
                     AddAddress(V4(vps.v4_addr), PRIVATE_PREFIX, interface_name)>>
                \o Map(public, LAMBDA p : AddRoute(V4(p), PUBLIC_PREFIX, interface_name))
                \o <<AddRoute(V6(vps.v6_prefix), V6_PREFIX, interface_name)>>]

\* the None arm: a tenant with no interface yet
NewArm(acc, vps, link_interface) ==
    LET id == acc.next_interface_id
        interface_name == format_vps(id)
        public == IF vps.v4_public.tag = "None" THEN <<>>
                  ELSE as_many(vps.v4_public)
    IN  [acc EXCEPT
            !.next_interface_id = id + 1,
            !.interface_states = Append(@, InterfaceState(interface_name, vps)),
            !.diff_add = @
                \o <<AddInterface([name |-> interface_name, index |-> 0,
                                   link |-> link_interface, vlan |-> vps.vlan]),
                     AddAddress(V4(vps.v4_addr), PRIVATE_PREFIX, interface_name)>>
                \o Map(public, LAMBDA p : AddRoute(V4(p), PUBLIC_PREFIX, interface_name))
                \o <<AddRoute(V6(vps.v6_prefix), V6_PREFIX, interface_name)>>]

\* a faulty match: an interface counts only when it sits on the parent link
TenantStepOnParent(acc, st, vps, link_interface) ==
    LET hits == {k \in 1..Len(st.interfaces) :
                    /\ st.interfaces[k].vlan = vps.vlan
                    /\ st.interfaces[k].link = link_interface}
    IN  IF hits # {}
        THEN KeptArm(acc, st, vps, st.interfaces[CHOOSE k \in hits : \A j \in hits : k <= j])
        ELSE NewArm(acc, vps, link_interface)

\* the body of "for vps in target"
TenantStep(acc, st, vps, link_interface) ==
    LET k == find_vlan(st.interfaces, vps.vlan)
    IN  IF k # 0 THEN KeptArm(acc, st, vps, st.interfaces[k])
        ELSE NewArm(acc, vps, link_interface)

RECURSIVE TenantLoop(_, _, _, _)
TenantLoop(acc, st, tenants, link_interface) ==
    IF tenants = <<>> THEN acc
    ELSE TenantLoop(TenantStep(acc, st, Head(tenants), link_interface),
                    st, Tail(tenants), link_interface)

\* a faulty filter: an interface goes only when no tenant has its VLAN id
removed_unmatched_vlans(acc, st) ==
    Map(SelectSeq(st.interfaces,
                  LAMBDA i : ~\E k \in 1..Len(acc.interface_states) :
                                  acc.interface_states[k].vps.vlan = i.vlan),
        LAMBDA i : i.index)

\* the interfaces no tenant kept: rem_interfaces
removed_interfaces(acc, st) ==
    Map(SelectSeq(st.interfaces, LAMBDA i : ~Contains(acc.keep_interfaces, i.index)),
        LAMBDA i : i.index)

\* a faulty filter: the routes of removed interfaces are not left out
IsUnkeptRoute(acc, rem_interfaces, r) == ~Contains(acc.keep_routes, r.message)

\* the routes that get a RemoveRoute
IsRemovedRoute(acc, rem_interfaces, r) ==
    ~Contains(acc.keep_routes, r.message) /\ ~Contains(rem_interfaces, r.interface)

\* everything make_diff computes before it orders the returned Vec
diff_parts(k, root_interface, tenants, st) ==
    LET link_interface == interface_name_to_index(k, root_interface)
        acc0 == [keep_interfaces |-> <<>>, keep_routes |-> <<>>,
                 rem_addresses |-> <<>>, diff_add |-> <<>>,
                 interface_states |-> <<>>,
                 next_interface_id |-> first_interface_id(st.interfaces)]
        acc == TenantLoop(acc0, st, tenants, link_interface.value)
        rem_interfaces == removed_interfaces(acc, st)
        rem_routes == SelectSeq(st.routes,
                                LAMBDA r : IsRemovedRoute(acc, rem_interfaces, r))
    IN  [ok |-> link_interface.ok,
         rem_if |-> Map(rem_interfaces, RemoveInterface),
         rem_rt |-> Map(rem_routes, LAMBDA r : RemoveRoute(r.message)),
         rem_addr |-> Map(acc.rem_addresses, RemoveAddress),
         diff_add |-> acc.diff_add,
         interface_states |-> acc.interface_states]

\* a faulty order: the additions are appended before the route removals
adds_before_route_removals(p) == p.rem_if \o p.diff_add \o p.rem_rt \o p.rem_addr

\* diff.rs: the additions are collected in diff_add and appended last
assemble(p) == p.rem_if \o p.rem_rt \o p.rem_addr \o p.diff_add

\* main.rs: the additions are pushed to diff as the tenants are visited
main_assemble(p) == p.diff_add \o p.rem_if \o p.rem_rt \o p.rem_addr

make_diff(k, root_interface, tenants, st) ==
    IF ~interface_name_to_index(k, root_interface).ok
    THEN [ok |-> FALSE, diff |-> <<>>, interface_states |-> <<>>]
    ELSE LET p == diff_parts(k, root_interface, tenants, st)
         IN  [ok |-> TRUE, diff |-> assemble(p),
              interface_states |-> p.interface_states]

\* make_diff of main.rs (no interface_states are returned there)
main_make_diff(k, tenants, st) ==
    LET p == diff_parts(k, VPS_INTERFACE, tenants, st)
    IN  IF ~p.ok THEN [ok |-> FALSE, diff |-> <<>>, interface_states |-> <<>>]
        ELSE [ok |-> TRUE, diff |-> main_assemble(p), interface_states |-> <<>>]

---------------------------------------------------------------------------
(* The kernel side of the netlink requests the applier sends. *)

Ok(k) == [ok |-> TRUE, kernel |-> k]
Err(k) == [ok |-> FALSE, kernel |-> k]

\* link add, VLAN kind: a name in use is refused; the kernel picks the index
link_add_vlan(k, name, link, vlan) ==
    IF \E n \in 1..Len(k.links) : k.links[n].name = name THEN Err(k)
    ELSE Ok([k EXCEPT
                !.links = Append(@, [index |-> k.next_index, name |-> name,
                                     kind |-> "vlan", link |-> link, vlan |-> vlan]),
                !.next_index = @ + 1])

\* link del: the addresses and routes of the link go with it
link_del(k, index) ==
    IF ~\E n \in 1..Len(k.links) : k.links[n].index = index THEN Err(k)
    ELSE Ok([k EXCEPT
                !.links = SelectSeq(@, LAMBDA l : l.index # index),
                !.addrs = SelectSeq(@, LAMBDA a : a.index # index),
                !.routes = SelectSeq(@, LAMBDA r : r.oif # index)])

FamilyOf(ip) == IF ip.v = "V4" THEN AF_INET ELSE AF_INET6

address_add(k, interface, address, prefix_length) ==
    Ok([k EXCEPT !.addrs = Append(@, [index |-> interface, family |-> FamilyOf(address),
                                      address |-> address.ip,
                                      prefix_len |-> prefix_length,
                                      scope |-> RT_SCOPE_UNIVERSE])])

address_del(k, msg) ==
    IF ~Contains(k.addrs, msg) THEN Err(k)
    ELSE Ok([k EXCEPT !.addrs = SelectSeq(@, LAMBDA a : a # msg)])

\* a faulty route add: the protocol is left at the library's default
route_add_static(k, route_proto, interface, destination, prefix_length) ==
    IF \E n \in 1..Len(k.routes) :
            /\ k.routes[n].address_family = FamilyOf(destination)
            /\ k.routes[n].destination = destination.ip
            /\ k.routes[n].destination_prefix_length = prefix_length
    THEN Err(k)
    ELSE Ok([k EXCEPT !.routes = Append(@, [address_family |-> FamilyOf(destination),
                                           destination_prefix_length |-> prefix_length,
                                           protocol |-> 4,
                                           oif |-> interface,
                                           destination |-> destination.ip])])

\* route add: a destination/prefix already in the table is refused
route_add(k, route_proto, interface, destination, prefix_length) ==
    IF \E n \in 1..Len(k.routes) :
            /\ k.routes[n].address_family = FamilyOf(destination)
            /\ k.routes[n].destination = destination.ip
            /\ k.routes[n].destination_prefix_length = prefix_length
    THEN Err(k)
    ELSE Ok([k EXCEPT !.routes = Append(@, [address_family |-> FamilyOf(destination),
                                           destination_prefix_length |-> prefix_length,
                                           protocol |-> route_proto,
                                           oif |-> interface,
                                           destination |-> destination.ip])])

route_del(k, msg) ==
    IF ~Contains(k.routes, msg) THEN Err(k)
    ELSE Ok([k EXCEPT !.routes = SelectSeq(@, LAMBDA r : r # msg)])

---------------------------------------------------------------------------
(* The applier (diff.rs). *)

\* one arm of the match in apply_diff
apply_command(k, route_proto, command) ==
    CASE command.op = "AddInterface" ->
            link_add_vlan(k, command.i.name, command.i.link, command.i.vlan)
      [] command.op = "RemoveInterface" -> link_del(k, command.index)
      [] command.op = "AddAddress" ->
            LET interface == interface_name_to_index(k, command.interface_name)
            IN  IF ~interface.ok THEN Err(k)
                ELSE address_add(k, interface.value, command.address,
                                 command.prefix_length)
      [] command.op = "RemoveAddress" -> address_del(k, command.msg)
      [] command.op = "AddRoute" ->
            LET interface == interface_name_to_index(k, command.interface_name)
            IN  IF ~interface.ok THEN Err(k)
                ELSE route_add(k, route_proto, interface.value, command.destination,
                               command.destination_prefix_length)
      [] command.op = "RemoveRoute" -> route_del(k, command.msg)

\* for command in diff { ...await? }: the whole loop, stopping at the first error
RECURSIVE apply_diff(_, _, _)
apply_diff(k, route_proto, commands) ==
    IF commands = <<>> THEN Ok(k)
    ELSE LET r == apply_command(k, route_proto, Head(commands))
         IN  IF ~r.ok THEN r ELSE apply_diff(r.kernel, route_proto, Tail(commands))

\* the command the loop takes up after `n` commands
next_command(commands, n) == commands[n + 1]

\* a faulty loop: the requests are sent without awaiting them
no_await(n_issued, n_done) == n_issued >= n_done

\* .await: the loop does not go on before the request in flight has returned
await_previous(n_issued, n_done) == n_issued = n_done

---------------------------------------------------------------------------
(* The hosts and tenant lists the model runs over. *)

vps1 == <<"v", "p", "s", "1">>
vps3 == <<"v", "p", "s", "3">>
vps7 == <<"v", "p", "s", "7">>
vpsx == <<"v", "p", "s", "x">>

Link(index, name, kind, link, vlan) ==
    [index |-> index, name |-> name, kind |-> kind, link |-> link, vlan |-> vlan]
AddrMsg(index, family, address, prefix_len, scope) ==
    [index |-> index, family |-> family, address |-> address,
     prefix_len |-> prefix_len, scope |-> scope]
RouteMsg(family, destination, prefix_len, oif, protocol) ==
    [address_family |-> family, destination_prefix_length |-> prefix_len,
     protocol |-> protocol, oif |-> oif, destination |-> destination]

\* what every host has besides the tenant interfaces: the parent link, a link
\* named like a tenant interface that is no VLAN, a VLAN that is not named like
\* one, their addresses, and routes of other protocols
HostLinks ==
    { Link(1, VPS_INTERFACE, "phys", 0, 0),
      Link(2, <<"v", "p", "s", "d">>, "dummy", 0, 0),
      Link(3, <<"e", "t", "h", "0", ".", "9">>, "vlan", 1, 9) }
HostAddrs ==
    { AddrMsg(1, AF_INET, "192.0.2.1", 24, RT_SCOPE_UNIVERSE),
      AddrMsg(1, AF_INET6, "fe80::1", 64, 253) }
HostRoutes ==
    { RouteMsg(AF_INET, "", 0, 1, 3),
      RouteMsg(AF_INET6, "2001:db8::", 64, 3, 2) }

P1 == "193.3.165.223"
P2 == "193.3.165.224"
T1 == VPS(4000, "100.64.0.0", One(P1), "2a11:f2c0:3::")
T1n == VPS(4000, "100.64.0.0", Many(<<>>), "2a11:f2c0:3::")
T1d == VPS(4000, "100.64.0.0", Many(<<P1, P1>>), "2a11:f2c0:3::")
T2 == VPS(4001, "100.64.0.2", NoneIp, "2a11:f2c0:4::")
T2m == VPS(4001, "100.64.0.2", Many(<<P2, P1>>), "2a11:f2c0:4::")
T2v == VPS(4000, "100.64.0.2", NoneIp, "2a11:f2c0:4::")
T3 == VPS(4003, "100.64.0.4", NoneIp, "2a11:f2c0:5::")

\* const TARGET_VPS
TARGET_VPS == <<T1>>

LinkPool ==
    { Link(10, vps1, "vlan", 1, 4000), Link(11, vps3, "vlan", 3, 4001),
      Link(12, vps7, "vlan", 1, 4000), Link(13, vpsx, "vlan", 1, 4002) }
AddrPool ==
    { AddrMsg(10, AF_INET, "100.64.0.0", 31, RT_SCOPE_UNIVERSE),
      AddrMsg(10, AF_INET, "100.64.0.0", 32, RT_SCOPE_UNIVERSE),
      AddrMsg(10, AF_INET6, "2a11:f2c0:3::1", 64, RT_SCOPE_UNIVERSE),
      AddrMsg(11, AF_INET, "100.64.0.2", 31, RT_SCOPE_UNIVERSE),
      AddrMsg(11, AF_INET, "100.64.0.0", 31, RT_SCOPE_UNIVERSE),
      AddrMsg(12, AF_INET, "100.64.0.0", 31, RT_SCOPE_UNIVERSE) }
RoutePool ==
    { RouteMsg(AF_INET, P1, 32, 10, VPS_RT_PROTO),
      RouteMsg(AF_INET, P1, 32, 11, VPS_RT_PROTO),
      RouteMsg(AF_INET, P2, 32, 10, VPS_RT_PROTO),
      RouteMsg(AF_INET, P1, 31, 10, VPS_RT_PROTO),
      RouteMsg(AF_INET, P2, 32, 1, VPS_RT_PROTO),
      RouteMsg(AF_INET, P2, 32, 11, 3),
      RouteMsg(AF_INET6, "2a11:f2c0:3::", 64, 10, VPS_RT_PROTO),
      RouteMsg(AF_INET6, "2a11:f2c0:3::", 64, 12, VPS_RT_PROTO),
      RouteMsg(AF_INET6, "2a11:f2c0:4::", 64, 11, VPS_RT_PROTO),
      RouteMsg(AF_INET6, "2a11:f2c0:4::", 64, 13, VPS_RT_PROTO) }

RouteKey(m) == <<m.address_family, m.destination, m.destination_prefix_length>>

\* a host: the fixed part plus tenant leftovers; addresses and routes sit on
\* links that exist, and no destination/prefix is in the route table twice
Host(links, addrs, routes) ==
    [links |-> ByIndex(HostLinks \cup links),
     addrs |-> SetToSeq(HostAddrs) \o SetToSeq(addrs),
     routes |-> SetToSeq(HostRoutes) \o SetToSeq(routes),
     next_index |-> 20]

IsHost(links, addrs, routes) ==
    LET indexes == {l.index : l \in HostLinks \cup links}
    IN  /\ \A a \in addrs : a.index \in indexes
        /\ \A r \in routes : r.oif \in indexes
        /\ \A r1, r2 \in routes : RouteKey(r1) = RouteKey(r2) => r1 = r2

AtMost(S, n) == {X \in SUBSET S : Cardinality(X) <= n}

Hosts ==
    { Host(ls, as, rs) :
        <<ls, as, rs>> \in { h \in AtMost(LinkPool, MaxLinks) \X AtMost(AddrPool, MaxAddrs)
                                    \X AtMost(RoutePool, MaxRoutes) :
                                /\ IsHost(h[1], h[2], h[3])
                                /\ Cardinality(h[2]) + Cardinality(h[3]) <= MaxRecords } }

DiffConfigs ==
    { <<>>, <<T1>>, <<T2>>, <<T1, T2>>, <<T2, T1>>, <<T1n, T2m>>, <<T1, T2m>>,
      <<T1d>>, <<T1, T2v>>, <<T1, T3>> }

DistinctVlans(tenants) ==
    \A a, b \in 1..Len(tenants) : tenants[a].vlan = tenants[b].vlan => a = b

TickConfigs == { <<>>, <<T1>>, <<T2>>, <<T1, T2>>, <<T1n, T2m>>, <<T1, T2m>> }

TickHosts ==
    { Host({}, {}, {}),
      Host({Link(12, vps7, "vlan", 1, 4002)}, {}, {}),
      Host({Link(10, vps1, "vlan", 1, 4000), Link(13, vpsx, "vlan", 1, 4002)},
           {AddrMsg(10, AF_INET, "100.64.0.0", 32, RT_SCOPE_UNIVERSE)},
           {RouteMsg(AF_INET, P2, 32, 10, VPS_RT_PROTO),
            RouteMsg(AF_INET, "100.64.0.0", 31, 10, 2),
            RouteMsg(AF_INET6, "2a11:f2c0:4::", 64, 13, VPS_RT_PROTO)}) }

\* hosts whose physical link carries another name than the configured one
Renamed(h) ==
    [h EXCEPT !.links = Map(@, LAMBDA l :
        IF l.name = VPS_INTERFACE THEN [l EXCEPT !.name = <<"e", "t", "h", "1">>]
        ELSE l)]

RenamedHosts == { Renamed(h) : h \in TickHosts }

---------------------------------------------------------------------------
(* The reconciliation tick: collect, make_diff, apply_diff. *)

NoState == [interfaces |-> <<>>, addresses |-> <<>>, routes |-> <<>>]

\* the tick driver takes the whole tenant list and starts collecting
TickStart ==
    /\ pc = "idle"
    /\ pc' = "interfaces"
    /\ target' = config
    /\ kernel0' = kernel
    /\ state' = NoState
    /\ diff' = <<>>
    /\ interface_states' = <<>>
    /\ issued' = 0
    /\ done' = 0
    /\ log' = <<>>
    /\ UNCHANGED <<kernel, config, freed, lastTick, aborted, reloads, failures>>

GetVlanInterfaces ==
    /\ pc = "interfaces"
    /\ state' = [state EXCEPT !.interfaces = get_vlan_interfaces(kernel)]
    /\ pc' = "addresses"
    /\ UNCHANGED <<kernel, config, target, diff, interface_states, issued, done,
                   log, kernel0, freed, lastTick, aborted, reloads, failures>>

GetAddresses ==
    /\ pc = "addresses"
    /\ state' = [state EXCEPT !.addresses = get_addresses(kernel)]
    /\ pc' = "routes"
    /\ UNCHANGED <<kernel, config, target, diff, interface_states, issued, done,
                   log, kernel0, freed, lastTick, aborted, reloads, failures>>

GetRoutes ==
    /\ pc = "routes"
    /\ state' = [state EXCEPT !.routes = get_routes(kernel, VPS_RT_PROTO)]
    /\ pc' = "diff"
    /\ UNCHANGED <<kernel, config, target, diff, interface_states, issued, done,
                   log, kernel0, freed, lastTick, aborted, reloads, failures>>

\* a dump fails with a netlink error: get_state returns it
CollectFails ==
    /\ pc \in {"interfaces", "addresses", "routes"}
    /\ failures < MaxFailures
    /\ failures' = failures + 1
    /\ pc' = "failed"
    /\ UNCHANGED <<kernel, config, target, state, diff, interface_states, issued,
                   done, log, kernel0, freed, lastTick, aborted, reloads>>

MakeDiff ==
    /\ pc = "diff"
    /\ LET r == make_diff(kernel, VPS_INTERFACE, target, state)
       IN  /\ diff' = r.diff
           /\ interface_states' = r.interface_states
           /\ pc' = IF r.ok THEN "apply" ELSE "failed"
    /\ UNCHANGED <<kernel, config, target, state, issued, done, log, kernel0,
                   freed, lastTick, aborted, reloads, failures>>

\* apply_diff takes up the next command
Issue ==
    /\ pc = "apply"
    /\ issued < Len(diff)
    /\ await_previous(issued, done)
    /\ issued' = issued + 1
    /\ log' = Append(log, next_command(diff, issued))
    /\ UNCHANGED <<kernel, config, target, pc, state, diff, interface_states,
                   done, kernel0, freed, lastTick, aborted, reloads, failures>>

Freed(k, command) ==
    IF command.op = "RemoveInterface"
    THEN {l.name : l \in {m \in Range(k.links) : m.index = command.index}}
    ELSE {}

\* the request in flight is carried out
OpCompletes ==
    /\ pc = "apply"
    /\ done < issued
    /\ LET r == apply_command(kernel, VPS_RT_PROTO, diff[done + 1])
       IN  /\ r.ok
           /\ kernel' = r.kernel
           /\ freed' = freed \cup Freed(kernel, diff[done + 1])
    /\ done' = done + 1
    /\ UNCHANGED <<config, target, pc, state, diff, interface_states, issued, log,
                   kernel0, lastTick, aborted, reloads, failures>>

\* the request in flight is refused (or its interface name does not resolve)
OpRejected ==
    /\ pc = "apply"
    /\ done < issued
    /\ ~apply_command(kernel, VPS_RT_PROTO, diff[done + 1]).ok
    /\ pc' = "failed"
    /\ aborted' = (aborted \/ (done > 0 /\ done + 1 < Len(diff)))
    /\ UNCHANGED <<kernel, config, target, state, diff, interface_states, issued,
                   done, log, kernel0, freed, lastTick, reloads, failures>>

\* a faulty loop: the error of a request is dropped and the loop goes on
OpFailsIgnored ==
    /\ pc = "apply"
    /\ done < issued
    /\ failures < MaxFailures
    /\ failures' = failures + 1
    /\ done' = done + 1
    /\ UNCHANGED <<kernel, config, target, pc, state, diff, interface_states,
                   issued, log, kernel0, freed, lastTick, aborted, reloads>>

\* the request in flight fails with a netlink error and changes nothing
OpFails ==
    /\ pc = "apply"
    /\ done < issued
    /\ failures < MaxFailures
    /\ failures' = failures + 1
    /\ pc' = "failed"
    /\ aborted' = (aborted \/ (done > 0 /\ done + 1 < Len(diff)))
    /\ UNCHANGED <<kernel, config, target, state, diff, interface_states, issued,
                   done, log, kernel0, freed, lastTick, reloads>>

\* apply_diff returns Ok(()): the tick is over
TickOk ==
    /\ pc = "apply"
    /\ done = Len(diff)
    /\ issued = done
    /\ pc' = "idle"
    /\ lastTick' = "ok"
    /\ UNCHANGED <<kernel, config, target, state, diff, interface_states, issued,
                   done, log, kernel0, freed, aborted, reloads, failures>>

\* the error reaches the tick driver, which logs it and waits for the next tick
TickErr ==
    /\ pc = "failed"
    /\ pc' = "idle"
    /\ lastTick' = "failed"
    /\ UNCHANGED <<kernel, config, target, state, diff, interface_states, issued,
                   done, log, kernel0, freed, aborted, reloads, failures>>

\* a new tenant list replaces the loaded one
Reload ==
    /\ reloads < MaxReloads
    /\ reloads' = reloads + 1
    /\ \E c \in TickConfigs \ {config} : config' = c
    /\ UNCHANGED <<kernel, target, pc, state, diff, interface_states, issued, done,
                   log, kernel0, freed, lastTick, aborted, failures>>

Init ==
    /\ kernel \in TickHosts
    /\ config \in TickConfigs
    /\ target = <<>>
    /\ pc = "idle"
    /\ state = NoState
    /\ diff = <<>>
    /\ interface_states = <<>>
    /\ issued = 0
    /\ done = 0
    /\ log = <<>>
    /\ kernel0 = kernel
    /\ freed = {}
    /\ lastTick = "none"
    /\ aborted = FALSE
    /\ reloads = 0
    /\ failures = 0

Next ==
    \/ TickStart
    \/ GetVlanInterfaces
    \/ GetAddresses
    \/ GetRoutes
    \/ CollectFails
    \/ MakeDiff
    \/ Issue
    \/ OpCompletes
    \/ OpRejected
    \/ OpFails
    \/ TickOk
    \/ TickErr
    \/ Reload

Spec == Init /\ [][Next]_vars

---------------------------------------------------------------------------
(* make_diff and apply_diff as functions: any host, any tenant list. *)

DiffReconcile ==
    /\ pc = "input"
    /\ LET st == get_state(kernel, VPS_RT_PROTO)
           r == make_diff(kernel, VPS_INTERFACE, target, st)
       IN  /\ r.ok
           /\ state' = st
           /\ diff' = r.diff
           /\ interface_states' = r.interface_states
    /\ pc' = "diffed"
    /\ UNCHANGED <<kernel, config, target, issued, done, log, kernel0, freed,
                   lastTick, aborted, reloads, failures>>

\* make_diff returns Err: there is no list to apply
DiffFails ==
    /\ pc = "input"
    /\ LET st == get_state(kernel, VPS_RT_PROTO)
           r == make_diff(kernel, VPS_INTERFACE, target, st)
       IN  /\ ~r.ok
           /\ state' = st
           /\ diff' = r.diff
           /\ interface_states' = r.interface_states
    /\ pc' = "failed"
    /\ UNCHANGED <<kernel, config, target, issued, done, log, kernel0, freed,
                   lastTick, aborted, reloads, failures>>

DiffApplied ==
    /\ pc = "diffed"
    /\ LET r == apply_diff(kernel, VPS_RT_PROTO, diff)
       IN  /\ r.ok
           /\ kernel' = r.kernel
    /\ pc' = "applied"
    /\ UNCHANGED <<config, target, state, diff, interface_states, issued, done,
                   log, kernel0, freed, lastTick, aborted, reloads, failures>>

DiffRefused ==
    /\ pc = "diffed"
    /\ LET r == apply_diff(kernel, VPS_RT_PROTO, diff)
       IN  /\ ~r.ok
           /\ kernel' = r.kernel
    /\ pc' = "refused"
    /\ UNCHANGED <<config, target, state, diff, interface_states, issued, done,
                   log, kernel0, freed, lastTick, aborted, reloads, failures>>

InitDiff ==
    /\ kernel \in Hosts \cup RenamedHosts
    /\ config \in DiffConfigs
    /\ target = config
    /\ pc = "input"
    /\ state = NoState
    /\ diff = <<>>
    /\ interface_states = <<>>
    /\ issued = 0
    /\ done = 0
    /\ log = <<>>
    /\ kernel0 = kernel
    /\ freed = {}
    /\ lastTick = "none"
    /\ aborted = FALSE
    /\ reloads = 0
    /\ failures = 0

NextDiff == DiffReconcile \/ DiffFails \/ DiffApplied \/ DiffRefused

SpecDiff == InitDiff /\ [][NextDiff]_vars

---------------------------------------------------------------------------
(* The program of main.rs: one pass, every error unwrapped. *)

MainMakeDiff ==
    /\ pc = "diff"
    /\ LET r == main_make_diff(kernel, target, state)
       IN  /\ diff' = r.diff
           /\ interface_states' = r.interface_states
           /\ pc' = IF r.ok THEN "apply" ELSE "failed"
    /\ UNCHANGED <<kernel, config, target, state, issued, done, log, kernel0,
                   freed, lastTick, aborted, reloads, failures>>

\* apply_diff(...).await.unwrap() returns and main ends
MainExit ==
    /\ pc = "apply"
    /\ done = Len(diff)
    /\ issued = done
    /\ pc' = "exit"
    /\ lastTick' = "ok"
    /\ UNCHANGED <<kernel, config, target, state, diff, interface_states, issued,
                   done, log, kernel0, freed, aborted, reloads, failures>>

\* unwrap() on an Err
MainPanic ==
    /\ pc = "failed"
    /\ pc' = "panicked"
    /\ lastTick' = "failed"
    /\ UNCHANGED <<kernel, config, target, state, diff, interface_states, issued,
                   done, log, kernel0, freed, aborted, reloads, failures>>

InitMain ==
    /\ kernel \in Hosts
    /\ config = TARGET_VPS
    /\ target = TARGET_VPS
    /\ pc = "interfaces"
    /\ state = NoState
    /\ diff = <<>>
    /\ interface_states = <<>>
    /\ issued = 0
    /\ done = 0
    /\ log = <<>>
    /\ kernel0 = kernel
    /\ freed = {}
    /\ lastTick = "none"
    /\ aborted = FALSE
    /\ reloads = 0
    /\ failures = 0

NextMain ==
    \/ GetVlanInterfaces
    \/ GetAddresses
    \/ GetRoutes
    \/ CollectFails
    \/ MainMakeDiff
    \/ Issue
    \/ OpCompletes
    \/ OpRejected
    \/ OpFails
    \/ MainExit
    \/ MainPanic

SpecMain == InitMain /\ [][NextMain]_vars

\* the tick driver fires again and again, and a request that was sent is
\* answered: none of the steps of a tick waits forever
TickStep ==
    \/ TickStart
    \/ GetVlanInterfaces
    \/ GetAddresses
    \/ GetRoutes
    \/ Issue
    \/ OpCompletes
    \/ OpRejected
    \/ TickOk
    \/ TickErr

\* make_diff is a function call: it returns, with Ok or with Err
Reconciled == pc = "diff" /\ pc' \in {"apply", "failed"}

LiveSpec == Init /\ [][Next]_vars /\ WF_vars(TickStep) /\ WF_pc(Reconciled)

---------------------------------------------------------------------------
(* Vocabulary of the properties. *)

IsAdd(c) == c.op \in {"AddInterface", "AddAddress", "AddRoute"}

\* position of a command's kind in the order the specification gives
Rank(c) ==
    CASE c.op = "RemoveInterface" -> 1
      [] c.op = "RemoveRoute" -> 2
      [] c.op = "RemoveAddress" -> 3
      [] OTHER -> 4

NameOf(c) == IF c.op = "AddInterface" THEN c.i.name ELSE c.interface_name

\* the VLAN of the interface a name stands for: in the snapshot, or being created
VlanOfName(name) ==
    LET old == {k \in 1..Len(state.interfaces) : state.interfaces[k].name = name}
        new == {k \in 1..Len(diff) :
                    diff[k].op = "AddInterface" /\ diff[k].i.name = name}
    IN  IF old # {} THEN state.interfaces[CHOOSE k \in old : TRUE].vlan
        ELSE IF new # {} THEN diff[CHOOSE k \in new : TRUE].i.vlan
        ELSE 0

\* first position of a VLAN id in the tenant list
TenantOfVlan(vlan) ==
    LET hits == {k \in 1..Len(target) : target[k].vlan = vlan}
    IN  IF hits = {} THEN 0 ELSE CHOOSE k \in hits : \A j \in hits : k <= j

TenantOfCommand(c) == TenantOfVlan(VlanOfName(NameOf(c)))

\* the number from_str_radix reads in an interface name
NumberOf(name) == unwrap_or(from_str_radix(name_suffix(name)), 0)

RemovedIndexes == {diff[k].index : k \in {j \in 1..Len(diff) : diff[j].op = "RemoveInterface"}}

AllocatedAt == {k \in 1..Len(diff) : diff[k].op = "AddInterface"}

\* what reconcile returns for the tenant list in force on the host as it is now
Rediff(tenants) ==
    make_diff(kernel, VPS_INTERFACE, tenants, get_state(kernel, VPS_RT_PROTO)).diff

\* a link the collector must not see, stated on the kernel record
Foreign(l) == l.kind # "vlan" \/ Len(l.name) < 3 \/ SubSeq(l.name, 1, 3) # <<"v", "p", "s">>

ManagedIndexes(k) == {l.index : l \in {m \in Range(k.links) : ~Foreign(m)}}

---------------------------------------------------------------------------
(* C1. Convergence: for every host and every tenant list with pairwise      *)
(* distinct VLAN ids, once every operation of reconcile's list has been     *)
(* applied in order (removing an interface drops its addresses and routes), *)
(* reconcile on the resulting host returns the empty list.                  *)

C1_Convergence ==
    (pc = "applied" /\ DistinctVlans(target)) => Rediff(target) = <<>>

\* a list with an interface removal that cascades and with additions was applied
C1_Witness ==
    /\ pc = "applied"
    /\ DistinctVlans(target)
    /\ \E k \in 1..Len(diff) :
            /\ diff[k].op = "RemoveInterface"
            /\ \E r \in Range(state.routes) : r.interface = diff[k].index
    /\ \E k \in 1..Len(diff) : diff[k].op = "AddInterface"
    /\ \E k \in 1..Len(diff) : diff[k].op = "RemoveAddress"

---------------------------------------------------------------------------
(* C2. Ordering: in every list reconcile returns, all RemoveInterface come  *)
(* first, then all RemoveRoute, then all RemoveAddress, then the Add*       *)
(* operations in the order of the tenants; no Add* precedes a Remove*.      *)

C2_Ordering ==
    \A a, b \in 1..Len(diff) :
        a < b =>
            /\ Rank(diff[a]) <= Rank(diff[b])
            /\ (IsAdd(diff[a]) /\ IsAdd(diff[b]))
                    => TenantOfCommand(diff[a]) <= TenantOfCommand(diff[b])

---------------------------------------------------------------------------
(* C3. Names are never reused: once an interface vps<N> has been removed,   *)
(* no later tick allocates vps<N> to a new interface.                       *)

---------------------------------------------------------------------------
(* C4. Unique names: in every reachable state no two live managed           *)
(* interfaces share a name, and every name reconcile allocates differs from *)
(* every name in the tick's snapshot and from the other names allocated in  *)
(* the same tick.                                                           *)

C4_UniqueNames ==
    /\ \A a, b \in Range(kernel.links) :
            (~Foreign(a) /\ ~Foreign(b) /\ a.name = b.name) => a = b
    /\ \A k \in AllocatedAt :
            /\ \A j \in 1..Len(state.interfaces) :
                    state.interfaces[j].name # diff[k].i.name
            /\ \A j \in AllocatedAt : diff[j].i.name = diff[k].i.name => j = k

\* two names allocated in one tick whose snapshot is not empty
C4_Witness ==
    /\ state.interfaces # <<>>
    /\ Cardinality(AllocatedAt) >= 2
    /\ pc = "idle"
    /\ lastTick = "ok"

---------------------------------------------------------------------------
(* C5. Self-healing: whatever prefix of a list was applied before apply     *)
(* aborted, if from some tick on no tick fails (the tenant list changes     *)
(* finitely often), the host reaches and keeps a state for which reconcile  *)
(* returns the empty list.                                                  *)

Converged == Rediff(config) = <<>>

C5_SelfHealing == <>[](lastTick # "failed") => <>[]Converged

\* a tick was aborted between two commands, and a later tick left the host
\* with nothing to do for a tenant list that is not empty
C5_Witness ==
    /\ aborted
    /\ pc = "idle"
    /\ lastTick = "ok"
    /\ config # <<>>
    /\ Converged

---------------------------------------------------------------------------
(* C6. No list reconcile returns holds a RemoveRoute or RemoveAddress for   *)
(* a route or address on an interface index that the same list removes with *)
(* a RemoveInterface.                                                       *)

C6_NoRemovalOnRemovedInterface ==
    \A k \in 1..Len(diff) :
        /\ diff[k].op = "RemoveRoute" => diff[k].msg.oif \notin RemovedIndexes
        /\ diff[k].op = "RemoveAddress" => diff[k].msg.index \notin RemovedIndexes

\* an interface that is removed carries a managed route and an address, and
\* the list removes another route explicitly
C6_Witness ==
    /\ pc = "diffed"
    /\ \E x \in RemovedIndexes :
            /\ \E r \in Range(state.routes) : r.interface = x
            /\ \E a \in Range(state.addresses) : a.interface = x /\ a.address.v = "V4"
    /\ \E k \in 1..Len(diff) : diff[k].op = "RemoveRoute"

---------------------------------------------------------------------------
(* C7. Ownership isolation: no RemoveInterface, RemoveRoute or              *)
(* RemoveAddress refers to a link that is not a VLAN named vps..., to a     *)
(* route with another protocol tag, or to an address on an interface that   *)
(* is not managed; and over a tick none of these resources is created,      *)
(* changed or deleted.                                                      *)

NeverReferenced ==
    \A k \in 1..Len(diff) :
        /\ diff[k].op = "RemoveInterface" => diff[k].index \in ManagedIndexes(kernel0)
        /\ diff[k].op = "RemoveRoute" => diff[k].msg.protocol = VPS_RT_PROTO
        /\ diff[k].op = "RemoveAddress" => diff[k].msg.index \in ManagedIndexes(kernel0)

ForeignLinks(k) == {l \in Range(k.links) : Foreign(l)}

ForeignRoutes(k) == {r \in Range(k.routes) : r.protocol # VPS_RT_PROTO}

\* the addresses on interfaces that are managed neither before nor now
ForeignAddrs(k) ==
    {a \in Range(k.addrs) :
        a.index \notin ManagedIndexes(kernel0) \cup ManagedIndexes(kernel)}

LinkIndexes(k) == {l.index : l \in Range(k.links)}

C7_OwnershipIsolation ==
    /\ NeverReferenced
    /\ ForeignLinks(kernel) = ForeignLinks(kernel0)
    /\ ForeignAddrs(kernel) = ForeignAddrs(kernel0)
    /\ ForeignRoutes(kernel) = ForeignRoutes(kernel0)

\* the routes with another tag that go through no managed interface
UnmanagedRoutes(k) ==
    {r \in ForeignRoutes(k) :
        r.oif \notin ManagedIndexes(kernel0) \cup ManagedIndexes(kernel)}

\* as amended: a route with another tag is left alone as long as it does not
\* go through a managed interface; one that does goes with that interface
C7_IsolationOffManaged ==
    /\ NeverReferenced
    /\ ForeignLinks(kernel) = ForeignLinks(kernel0)
    /\ ForeignAddrs(kernel) = ForeignAddrs(kernel0)
    /\ UnmanagedRoutes(kernel) = UnmanagedRoutes(kernel0)
    /\ \A r \in ForeignRoutes(kernel0) \ ForeignRoutes(kernel) :
            r.oif \in RemovedIndexes /\ r.oif \notin LinkIndexes(kernel)

\* a tick removed managed interfaces and created one on a host with foreign
\* links, addresses and routes, and a foreign route went with an interface
C7_Witness ==
    /\ pc = "apply"
    /\ done = Len(diff)
    /\ RemovedIndexes # {}
    /\ AllocatedAt # {}
    /\ ForeignRoutes(kernel) # ForeignRoutes(kernel0)
    /\ ForeignRoutes(kernel) # {}

---------------------------------------------------------------------------
(* C8. The state the collector returns holds exactly the links that are     *)
(* VLANs and named vps..., the addresses of universe scope, and the v4 and  *)
(* v6 routes tagged with the managed protocol; nothing else.                *)

C8_CollectorFilters ==
    pc = "diff" =>
        /\ Range(state.interfaces)
                = {[name |-> l.name, index |-> l.index, link |-> l.link, vlan |-> l.vlan] :
                        l \in {m \in Range(kernel.links) : ~Foreign(m)}}
        /\ {a.message : a \in Range(state.addresses)}
                = {m \in Range(kernel.addrs) : m.scope = RT_SCOPE_UNIVERSE}
        /\ {r.message : r \in Range(state.routes)}
                = {m \in Range(kernel.routes) :
                        /\ m.protocol = VPS_RT_PROTO
                        /\ m.address_family \in {AF_INET, AF_INET6}}
        /\ Len(state.interfaces) = Cardinality(Range(state.interfaces))
        /\ Len(state.addresses) = Cardinality(Range(state.addresses))
        /\ Len(state.routes) = Cardinality(Range(state.routes))

\* a collection that kept something and left something out, of every kind
C8_Witness ==
    /\ pc = "diff"
    /\ Len(state.interfaces) >= 2
    /\ state.addresses # <<>>
    /\ Len(state.routes) >= 2
    /\ Len(state.interfaces) < Len(kernel.links)
    /\ Len(state.addresses) < Len(kernel.addrs)
    /\ Len(state.routes) < Len(kernel.routes)

---------------------------------------------------------------------------
(* C9. When the command at position k fails, apply returns at once: the     *)
(* host is what commands 1..k-1 made of it, commands k+1..n are never       *)
(* issued, and nothing is issued to undo what was done.                     *)

AfterFailedApply ==
    issued > 0 /\ (pc = "failed" \/ (pc = "idle" /\ lastTick = "failed"))

C9_AbortAtFirstFailure ==
    AfterFailedApply =>
        /\ issued = done + 1
        /\ log = SubSeq(diff, 1, done + 1)
        /\ LET r == apply_diff(kernel0, VPS_RT_PROTO, SubSeq(diff, 1, done))
           IN  r.ok /\ kernel = r.kernel

\* a command failed after others had changed the host and before the last
C9_Witness ==
    /\ pc = "failed"
    /\ done >= 2
    /\ issued < Len(diff)
    /\ kernel # kernel0

---------------------------------------------------------------------------
(* C10. A tick is strictly sequential: the collection is complete before    *)
(* reconcile starts, reconcile has returned before the first command is     *)
(* issued, and the commands are issued in list order with at most one in    *)
(* flight: command i+1 is not issued before command i has completed.        *)

C10_Sequential ==
    /\ issued - done \in {0, 1}
    /\ log = SubSeq(diff, 1, issued)
    /\ pc \in {"interfaces", "addresses", "routes", "diff"}
            => diff = <<>> /\ issued = 0 /\ kernel = kernel0
    /\ pc \in {"diff", "apply"} => state = get_state(kernel0, VPS_RT_PROTO)
    /\ pc = "apply" => diff = make_diff(kernel0, VPS_INTERFACE, target, state).diff

\* the third command is in flight after the first two have completed
C10_Witness ==
    /\ pc = "apply"
    /\ issued = 3
    /\ done = 2
    /\ Len(diff) > 3

---------------------------------------------------------------------------
(* C11. With a snapshot taken from the host and tenants with distinct VLAN  *)
(* ids, the kernel (which refuses an address or route on a name that does   *)
(* not exist, a link whose name exists, a route whose destination/prefix    *)
(* exists, and the removal of what is gone) refuses no command of the list. *)

C11_NeverRefused == (pc = "refused") => ~DistinctVlans(target)

\* the destinations a tenant list wants routed, one entry per mention
WantedRoutes(tenants) ==
    {<<t, n, AF_INET, as_many(tenants[t].v4_public)[n], PUBLIC_PREFIX>> :
        <<t, n>> \in {x \in (1..Len(tenants)) \X (1..2) :
                        /\ tenants[x[1]].v4_public.tag # "None"
                        /\ x[2] <= Len(as_many(tenants[x[1]].v4_public))}}
    \cup {<<t, 0, AF_INET6, tenants[t].v6_prefix, V6_PREFIX>> : t \in 1..Len(tenants)}

\* no destination is wanted twice, by one tenant or by two
NoSharedDestination(tenants) ==
    \A a, b \in WantedRoutes(tenants) :
        (a[3] = b[3] /\ a[4] = b[4] /\ a[5] = b[5]) => a = b

\* no route the collector does not report holds a wanted destination
NoForeignHolder(k, tenants) ==
    \A r \in ForeignRoutes(k) : \A w \in WantedRoutes(tenants) :
        ~(r.address_family = w[3] /\ r.destination = w[4]
            /\ r.destination_prefix_length = w[5])

\* no link the collector does not report carries a name that is allocated
NoForeignName(k) ==
    \A l \in ForeignLinks(k) : \A n \in AllocatedAt : diff[n].i.name # l.name

\* as amended: nothing is refused when, besides, no destination is wanted
\* twice and nothing outside the snapshot holds a wanted destination or name
C11_NeverRefusedWithoutConflict ==
    (pc = "refused") =>
        \/ ~DistinctVlans(target)
        \/ ~NoSharedDestination(target)
        \/ ~NoForeignHolder(kernel0, target)
        \/ ~NoForeignName(kernel0)

\* a public address moved: its route on another tenant's interface is removed
\* and it is routed anew, and the whole list went through
C11_Witness ==
    /\ pc = "applied"
    /\ DistinctVlans(target)
    /\ NoSharedDestination(target)
    /\ NoForeignHolder(kernel0, target)
    /\ \E a, b \in 1..Len(diff) :
            /\ diff[a].op = "RemoveRoute"
            /\ diff[b].op = "AddRoute"
            /\ diff[b].destination.ip = diff[a].msg.destination
            /\ diff[b].destination_prefix_length = diff[a].msg.destination_prefix_length
            /\ diff[a].msg.oif \in {i.index : i \in Range(state.interfaces)}
            /\ diff[a].msg.oif \notin RemovedIndexes

---------------------------------------------------------------------------
(* C12. reconcile returns one assignment per tenant, in input order; its    *)
(* name is that of the snapshot interface with the tenant's VLAN id when    *)
(* there is one, else the name allocated for the tenant; and every          *)
(* AddInterface, AddAddress and AddRoute for the tenant carries that name.  *)

\* make_diff has returned its list; apply_diff leaves state, diff and
\* interface_states as they are
AfterReconcile == pc = "diffed"

PublicOf(vps) == IF vps.v4_public.tag = "None" THEN {} ELSE Range(as_many(vps.v4_public))

\* the addition c is one a tenant vps asks for
AdditionFor(c, vps) ==
    CASE c.op = "AddInterface" -> c.i.vlan = vps.vlan
      [] c.op = "AddAddress" ->
            c.address = [v |-> "V4", ip |-> vps.v4_addr] /\ c.prefix_length = 31
      [] c.op = "AddRoute" ->
            \/ /\ c.destination.v = "V4"
               /\ c.destination.ip \in PublicOf(vps)
               /\ c.destination_prefix_length = 32
            \/ /\ c.destination = [v |-> "V6", ip |-> vps.v6_prefix]
               /\ c.destination_prefix_length = 64
      [] OTHER -> FALSE

SnapshotWithVlan(vlan) == {i \in Range(state.interfaces) : i.vlan = vlan}

C12_Assignments ==
    AfterReconcile =>
        /\ Len(interface_states) = Len(target)
        /\ \A t \in 1..Len(target) :
                /\ interface_states[t].vps = target[t]
                /\ IF SnapshotWithVlan(target[t].vlan) # {}
                   THEN interface_states[t].name
                            \in {i.name : i \in SnapshotWithVlan(target[t].vlan)}
                   ELSE /\ interface_states[t].name
                                \notin {i.name : i \in Range(state.interfaces)}
                        /\ \E k \in AllocatedAt :
                                /\ diff[k].i.name = interface_states[t].name
                                /\ diff[k].i.vlan = target[t].vlan
        /\ \A k \in 1..Len(diff) :
                IsAdd(diff[k]) =>
                    \E t \in 1..Len(target) :
                        /\ interface_states[t].name = NameOf(diff[k])
                        /\ AdditionFor(diff[k], target[t])

\* two tenants: one keeps its interface and gets an addition, one gets a new
\* interface
C12_Witness ==
    /\ pc = "diffed"
    /\ Len(target) = 2
    /\ \E t \in 1..2 : SnapshotWithVlan(target[t].vlan) = {}
    /\ \E t \in 1..2 :
            /\ SnapshotWithVlan(target[t].vlan) # {}
            /\ \E k \in 1..Len(diff) :
                    /\ diff[k].op \in {"AddAddress", "AddRoute"}
                    /\ NameOf(diff[k]) = interface_states[t].name

---------------------------------------------------------------------------
(* C13. The allocation counter of a tick starts at 1 + the largest number N *)
(* of a snapshot interface vps<N> (a suffix that is no number counts as 0,  *)
(* and so does an empty snapshot), and the k-th tenant without an interface *)
(* is named vps<start + k - 1>: with vps3 and vps7 present, vps8.           *)

RECURSIVE DecimalValue(_)
DecimalValue(digits) ==
    IF digits = <<>> THEN 0
    ELSE 10 * DecimalValue(SubSeq(digits, 1, Len(digits) - 1))
            + (CHOOSE d \in 0..9 :
                    <<"0", "1", "2", "3", "4", "5", "6", "7", "8", "9">>[d + 1]
                        = digits[Len(digits)])

\* the N of vps<N>, 0 when what follows "vps" is not a decimal number
SuffixNumber(name) ==
    LET suffix == SubSeq(name, 4, Len(name))
    IN  IF suffix # <<>> /\ \A n \in 1..Len(suffix) :
                suffix[n] \in {"0", "1", "2", "3", "4", "5", "6", "7", "8", "9"}
        THEN DecimalValue(suffix)
        ELSE 0

CounterStart ==
    LET numbers == {SuffixNumber(i.name) : i \in Range(state.interfaces)} \cup {0}
    IN  1 + CHOOSE m \in numbers : \A n \in numbers : n <= m

\* "vps" followed by the decimal digits of n, for n below 100
VpsName(n) ==
    LET digit(d) == <<"0", "1", "2", "3", "4", "5", "6", "7", "8", "9">>[d + 1]
    IN  IF n < 10 THEN <<"v", "p", "s", digit(n)>>
        ELSE <<"v", "p", "s", digit(n \div 10), digit(n % 10)>>

\* the tenants without an interface, and the rank of one among them
Unmatched == {t \in 1..Len(target) : SnapshotWithVlan(target[t].vlan) = {}}

RankUnmatched(t) == Cardinality({u \in Unmatched : u <= t})

C13_AllocationCounter ==
    AfterReconcile =>
        \A t \in Unmatched :
            /\ interface_states[t].name = VpsName(CounterStart + RankUnmatched(t) - 1)
            /\ \E k \in AllocatedAt :
                    /\ diff[k].i.name = VpsName(CounterStart + RankUnmatched(t) - 1)
                    /\ diff[k].i.vlan = target[t].vlan

\* vps3 and vps7 are present and a tenant without an interface gets vps8
C13_Witness ==
    /\ pc = "diffed"
    /\ {vps3, vps7} \subseteq {i.name : i \in Range(state.interfaces)}
    /\ Unmatched # {}
    /\ \E k \in AllocatedAt : diff[k].i.name = <<"v", "p", "s", "8">>

---------------------------------------------------------------------------
(* C14. Idempotence: a tenant whose interface exists and carries exactly    *)
(* the private address at /31, a /32 route per public address and the /64   *)
(* route of its prefix gets no operation; when every tenant is so and there *)
(* is no other managed interface or route, the list is empty.               *)

AddressesOn(index) == {a \in Range(state.addresses) : a.interface = index}

RoutesOn(index) == {r \in Range(state.routes) : r.interface = index}

\* the snapshot interface i carries what the tenant vps asks for, and no more
Provisioned(vps, i) ==
    /\ {<<a.address, a.prefix_length>> : a \in AddressesOn(i.index)}
            = {<<[v |-> "V4", ip |-> vps.v4_addr], 31>>}
    /\ Cardinality(AddressesOn(i.index)) = 1
    /\ {<<r.destination, r.destination_prefix_length>> : r \in RoutesOn(i.index)}
            = {<<[v |-> "V4", ip |-> p], 32>> : p \in PublicOf(vps)}
                \cup {<<[v |-> "V6", ip |-> vps.v6_prefix], 64>>}
    /\ Cardinality(RoutesOn(i.index)) = Cardinality(PublicOf(vps)) + 1

\* the operations that touch the interface i
TouchesInterface(c, i) ==
    CASE c.op = "RemoveInterface" -> c.index = i.index
      [] c.op = "RemoveRoute" -> c.msg.oif = i.index
      [] c.op = "RemoveAddress" -> c.msg.index = i.index
      [] OTHER -> NameOf(c) = i.name

Satisfied(t) ==
    \E i \in SnapshotWithVlan(target[t].vlan) :
        /\ SnapshotWithVlan(target[t].vlan) = {i}
        /\ Provisioned(target[t], i)

C14_Idempotence ==
    (AfterReconcile /\ DistinctVlans(target)) =>
        /\ \A t \in 1..Len(target) :
                Satisfied(t) =>
                    \A i \in SnapshotWithVlan(target[t].vlan) :
                        \A k \in 1..Len(diff) : ~TouchesInterface(diff[k], i)
        /\ ( /\ \A t \in 1..Len(target) : Satisfied(t)
             /\ \A i \in Range(state.interfaces) :
                    \E t \in 1..Len(target) : target[t].vlan = i.vlan
             /\ \A r \in Range(state.routes) :
                    \E i \in Range(state.interfaces) : r.interface = i.index )
            => diff = <<>>

\* one tenant is provisioned with public and v6 routes, another is not, and
\* the list is not empty
C14_Witness ==
    /\ pc = "diffed"
    /\ DistinctVlans(target)
    /\ diff # <<>>
    /\ \E t \in 1..Len(target) : Satisfied(t) /\ PublicOf(target[t]) # {}
    /\ \E t \in 1..Len(target) : ~Satisfied(t)

---------------------------------------------------------------------------
(* C15. For a tenant without an interface the list holds, next to each      *)
(* other and in this order: AddInterface (VLAN id, index of the parent      *)
(* link, allocated name), AddAddress (private address, /31), one AddRoute   *)
(* /32 per public address in list order, AddRoute /64 for the prefix; from  *)
(* an empty snapshot with one tenant this is the whole list.                *)

PublicList(vps) ==
    CASE vps.v4_public.tag = "None" -> <<>>
      [] vps.v4_public.tag = "One" -> <<vps.v4_public.ip>>
      [] OTHER -> vps.v4_public.ips

\* the index of the link named eth0
ParentIndex ==
    (CHOOSE l \in Range(kernel0.links) : l.name = <<"e", "t", "h", "0">>).index

NewInterfaceBlock(vps, name) ==
    <<[op |-> "AddInterface",
       i |-> [name |-> name, index |-> 0, link |-> ParentIndex, vlan |-> vps.vlan]],
      [op |-> "AddAddress", address |-> [v |-> "V4", ip |-> vps.v4_addr],
       prefix_length |-> 31, interface_name |-> name]>>
    \o [n \in 1..Len(PublicList(vps)) |->
            [op |-> "AddRoute", destination |-> [v |-> "V4", ip |-> PublicList(vps)[n]],
             destination_prefix_length |-> 32, interface_name |-> name]]
    \o <<[op |-> "AddRoute", destination |-> [v |-> "V6", ip |-> vps.v6_prefix],
          destination_prefix_length |-> 64, interface_name |-> name]>>

BlockOf(t) ==
    NewInterfaceBlock(target[t], VpsName(CounterStart + RankUnmatched(t) - 1))

C15_NewInterfaceBlock ==
    AfterReconcile =>
        /\ \A t \in Unmatched :
                \E k \in 1..Len(diff) :
                    /\ k + Len(BlockOf(t)) - 1 <= Len(diff)
                    /\ SubSeq(diff, k, k + Len(BlockOf(t)) - 1) = BlockOf(t)
        /\ (Len(target) = 1 /\ state.interfaces = <<>> /\ state.routes = <<>>)
                => diff = BlockOf(1)

\* the tenant of main.rs on a host without managed interfaces or routes, and
\* a tenant with two public addresses next to removals
C15_Witness ==
    /\ pc = "diffed"
    /\ \/ /\ target = TARGET_VPS
          /\ state.interfaces = <<>>
          /\ state.routes = <<>>
          /\ Len(diff) = 4
       \/ /\ \E t \in Unmatched : Len(PublicList(target[t])) = 2
          /\ RemovedIndexes # {}

---------------------------------------------------------------------------
(* C16. make_diff fails exactly when no link of the host carries the        *)
(* parent link name; then no list and no assignments are returned, nothing  *)
(* is applied and the kernel is as it was.                                  *)

ParentLinkPresent ==
    \E l \in Range(kernel0.links) : l.name = <<"e", "t", "h", "0">>

C16_FailsIffUnresolved ==
    /\ AfterReconcile => ParentLinkPresent
    /\ pc = "failed" =>
            /\ ~ParentLinkPresent
            /\ diff = <<>>
            /\ interface_states = <<>>
            /\ kernel = kernel0

\* a failed reconcile with a tenant list and managed interfaces to act on
C16_Witness ==
    /\ pc = "failed"
    /\ target # <<>>
    /\ state.interfaces # <<>>
    /\ state.routes # <<>>

---------------------------------------------------------------------------
(* C17. On an interface kept for a tenant, every snapshot address that is   *)
(* not the tenant's private address at /31 gets a RemoveAddress, of either  *)
(* address family; no address of an interface without a tenant gets one.    *)

Matched == {t \in 1..Len(target) : SnapshotWithVlan(target[t].vlan) # {}}

\* the first snapshot interface with the tenant's VLAN id
KeptInterface(t) ==
    state.interfaces[CHOOSE k \in 1..Len(state.interfaces) :
        /\ state.interfaces[k].vlan = target[t].vlan
        /\ \A j \in 1..(k - 1) : state.interfaces[j].vlan # target[t].vlan]

KeptIndexes == {KeptInterface(t).index : t \in Matched}

IsExpectedAddress(vps, a) ==
    a.address = [v |-> "V4", ip |-> vps.v4_addr] /\ a.prefix_length = 31

AddressRemovals == {diff[k].msg : k \in {j \in 1..Len(diff) : diff[j].op = "RemoveAddress"}}

StaleAddressesQueued(families) ==
    (AfterReconcile /\ DistinctVlans(target)) =>
        /\ \A t \in Matched :
                \A a \in AddressesOn(KeptInterface(t).index) :
                    (a.address.v \in families /\ ~IsExpectedAddress(target[t], a))
                        => a.message \in AddressRemovals
        /\ \A m \in AddressRemovals : m.index \in KeptIndexes

C17_StaleAddressesOfEveryFamily == StaleAddressesQueued({"V4", "V6"})

---------------------------------------------------------------------------
(* C18. For a kept interface the list holds AddAddress (private address,    *)
(* /31, the interface's name) exactly when no snapshot address on it is     *)
(* that address at /31; the private address at another prefix length gets   *)
(* a RemoveAddress, placed before the AddAddress.                           *)

PrivateAddition(t) ==
    [op |-> "AddAddress", address |-> [v |-> "V4", ip |-> target[t].v4_addr],
     prefix_length |-> 31, interface_name |-> KeptInterface(t).name]

PositionsOf(c) == {k \in 1..Len(diff) : diff[k] = c}

HasExpectedAddress(t) ==
    \E a \in AddressesOn(KeptInterface(t).index) : IsExpectedAddress(target[t], a)

\* the tenant's private address on its interface with another prefix length
WrongPrefix(t) ==
    {a \in AddressesOn(KeptInterface(t).index) :
        /\ a.address = [v |-> "V4", ip |-> target[t].v4_addr]
        /\ a.prefix_length # 31}

C18_PrivateAddress ==
    AfterReconcile =>
        \A t \in Matched :
            /\ (PositionsOf(PrivateAddition(t)) # {}) <=> ~HasExpectedAddress(t)
            /\ \A a \in WrongPrefix(t) :
                    /\ PositionsOf([op |-> "RemoveAddress", msg |-> a.message]) # {}
                    /\ \A j \in PositionsOf([op |-> "RemoveAddress", msg |-> a.message]) :
                            \A k \in PositionsOf(PrivateAddition(t)) : j < k

\* vps1 carries 100.64.0.0/32 and not 100.64.0.0/31
C18_Witness ==
    /\ pc = "diffed"
    /\ \E t \in Matched :
            /\ WrongPrefix(t) # {}
            /\ ~HasExpectedAddress(t)
            /\ PositionsOf(PrivateAddition(t)) # {}
            /\ \E a \in WrongPrefix(t) : a.prefix_length = 32

---------------------------------------------------------------------------
(* C19. For a kept interface the list holds AddRoute /32 through it for a   *)
(* public address exactly when the snapshot has no IPv4 route to that       *)
(* address with prefix length 32 on it, and AddRoute /64 for the prefix     *)
(* exactly when the snapshot has no IPv6 route to the prefix with prefix    *)
(* length 64 on it; an interface with the right address and /64 route that  *)
(* lacks one /32 route gets exactly one AddRoute.                           *)

RouteAddition(family, ip, len, name) ==
    [op |-> "AddRoute", destination |-> [v |-> family, ip |-> ip],
     destination_prefix_length |-> len, interface_name |-> name]

HasRoute(index, family, ip, len) ==
    \E r \in RoutesOn(index) :
        /\ r.destination = [v |-> family, ip |-> ip]
        /\ r.destination_prefix_length = len

\* the entries of the tenant's public list without a /32 route on its interface
MissingPublic(t) ==
    {n \in 1..Len(PublicList(target[t])) :
        ~HasRoute(KeptInterface(t).index, "V4", PublicList(target[t])[n], 32)}

RouteAdditionsVia(name) ==
    {k \in 1..Len(diff) : diff[k].op = "AddRoute" /\ diff[k].interface_name = name}

C19_MissingRoutes ==
    AfterReconcile =>
        \A t \in Matched :
            LET i == KeptInterface(t)
            IN  /\ \A p \in PublicOf(target[t]) :
                        (PositionsOf(RouteAddition("V4", p, 32, i.name)) # {})
                            <=> ~HasRoute(i.index, "V4", p, 32)
                /\ (PositionsOf(RouteAddition("V6", target[t].v6_prefix, 64, i.name)) # {})
                        <=> ~HasRoute(i.index, "V6", target[t].v6_prefix, 64)
                /\ ( /\ DistinctVlans(target)
                     /\ HasExpectedAddress(t)
                     /\ HasRoute(i.index, "V6", target[t].v6_prefix, 64)
                     /\ Cardinality(MissingPublic(t)) = 1 )
                        => Cardinality(RouteAdditionsVia(i.name)) = 1
                /\ ( /\ Len(target) = 1
                     /\ Len(state.interfaces) = 1
                     /\ {<<a.address, a.prefix_length>> : a \in AddressesOn(i.index)}
                            = {<<[v |-> "V4", ip |-> target[t].v4_addr], 31>>}
                     /\ {<<r.destination, r.destination_prefix_length>> :
                            r \in Range(state.routes)}
                            = {<<[v |-> "V6", ip |-> target[t].v6_prefix], 64>>}
                     /\ RoutesOn(i.index) = Range(state.routes)
                     /\ Len(PublicList(target[t])) = 1 )
                        => diff = <<RouteAddition("V4", PublicList(target[t])[1], 32, i.name)>>

\* vps1 with 100.64.0.0/31 and the /64 route, without the route to 193.3.165.223/32
C19_Witness ==
    /\ pc = "diffed"
    /\ target = TARGET_VPS
    /\ Len(state.interfaces) = 1
    /\ Matched = {1}
    /\ HasExpectedAddress(1)
    /\ HasRoute(KeptInterface(1).index, "V6", "2a11:f2c0:3::", 64)
    /\ diff = <<RouteAddition("V4", "193.3.165.223", 32, <<"v", "p", "s", "1">>)>>

---------------------------------------------------------------------------
(* C20. A snapshot route gets a RemoveRoute exactly when no tenant retains  *)
(* it (it is neither a /32 route to one of the tenant's public addresses    *)
(* nor the /64 route to its prefix, on the tenant's kept interface) and     *)
(* its interface is not one that is removed; routes with the managed tag    *)
(* through an interface that is not managed are among them.                 *)

Retained(r) ==
    \E t \in Matched :
        /\ r.interface = KeptInterface(t).index
        /\ \/ /\ r.destination.v = "V4"
              /\ r.destination.ip \in PublicOf(target[t])
              /\ r.destination_prefix_length = 32
           \/ /\ r.destination = [v |-> "V6", ip |-> target[t].v6_prefix]
              /\ r.destination_prefix_length = 64

\* the snapshot interfaces no tenant keeps
RemovedInterfaceSet == {i.index : i \in Range(state.interfaces)} \ KeptIndexes

RouteRemovals == {diff[k].msg : k \in {j \in 1..Len(diff) : diff[j].op = "RemoveRoute"}}

C20_RouteRemovals ==
    AfterReconcile =>
        /\ \A r \in Range(state.routes) :
                (r.message \in RouteRemovals)
                    <=> (~Retained(r) /\ r.interface \notin RemovedInterfaceSet)
        /\ RouteRemovals \subseteq {r.message : r \in Range(state.routes)}
        /\ RemovedIndexes = RemovedInterfaceSet

\* a route through eth0 is removed, a route on a removed interface is not
C20_Witness ==
    /\ pc = "diffed"
    /\ \E r \in Range(state.routes) :
            /\ r.interface \notin {i.index : i \in Range(state.interfaces)}
            /\ r.message \in RouteRemovals
    /\ \E r \in Range(state.routes) :
            /\ r.interface \in RemovedInterfaceSet
            /\ r.message \notin RouteRemovals

---------------------------------------------------------------------------
(* C21. A snapshot interface gets a RemoveInterface exactly when no tenant  *)
(* has its VLAN id, and then exactly one; the operations that touch such an *)
(* interface are that one RemoveInterface and nothing else.                 *)

VlanWanted(vlan) == \E t \in 1..Len(target) : target[t].vlan = vlan

InterfaceRemovalsOf(index) == PositionsOf([op |-> "RemoveInterface", index |-> index])

C21_RemovedIffVlanUnmatched ==
    AfterReconcile =>
        \A i \in Range(state.interfaces) :
            /\ (InterfaceRemovalsOf(i.index) # {}) <=> ~VlanWanted(i.vlan)
            /\ Cardinality(InterfaceRemovalsOf(i.index)) <= 1

\* as stated for the interfaces that are not the first one with a tenant's
\* VLAN id: the unmatched ones and the later ones of a repeated VLAN id
C21_RemovedIffNotKept ==
    AfterReconcile =>
        \A i \in Range(state.interfaces) :
            /\ (InterfaceRemovalsOf(i.index) # {}) <=> i.index \notin KeptIndexes
            /\ ~VlanWanted(i.vlan) => i.index \notin KeptIndexes
            /\ i.index \notin KeptIndexes =>
                    /\ Cardinality(InterfaceRemovalsOf(i.index)) = 1
                    /\ \A k \in 1..Len(diff) :
                            TouchesInterface(diff[k], i) => k \in InterfaceRemovalsOf(i.index)
            /\ ( /\ ~VlanWanted(i.vlan)
                 /\ target = <<>>
                 /\ Len(state.interfaces) = 1
                 /\ RoutesOn(i.index) = Range(state.routes) )
                    => diff = <<[op |-> "RemoveInterface", index |-> i.index]>>

\* vps1 with its address and two routes, and no tenant left
C21_Witness ==
    /\ pc = "diffed"
    /\ target = <<>>
    /\ Len(state.interfaces) = 1
    /\ \E i \in Range(state.interfaces) :
            /\ i.vlan = 4000
            /\ Cardinality(RoutesOn(i.index)) = 2
            /\ AddressesOn(i.index) # {}
            /\ RoutesOn(i.index) = Range(state.routes)
    /\ Len(diff) = 1

---------------------------------------------------------------------------
(* C22. Every AddAddress and AddRoute of a list names an interface that is  *)
(* in the snapshot and not removed by the list, or one that an AddInterface *)
(* earlier in the list creates; when the operation runs, the name resolves  *)
(* to a link of the kernel as the operations before it have left it.        *)

TargetsInterface(c) == c.op \in {"AddAddress", "AddRoute"}

KeptNames ==
    {i.name : i \in {j \in Range(state.interfaces) : InterfaceRemovalsOf(j.index) = {}}}

CreatedBefore(k) ==
    {diff[j].i.name : j \in {n \in 1..(k - 1) : diff[n].op = "AddInterface"}}

\* the kernel when the first n operations of the list have been applied
KernelAfter(n) == apply_diff(kernel0, VPS_RT_PROTO, SubSeq(diff, 1, n))

C22_NamesResolve ==
    AfterReconcile =>
        \A k \in 1..Len(diff) :
            TargetsInterface(diff[k]) =>
                /\ diff[k].interface_name \in KeptNames \cup CreatedBefore(k)
                /\ LET before == KernelAfter(k - 1)
                   IN  before.ok =>
                        /\ \E l \in Range(before.kernel.links) :
                                /\ l.name = diff[k].interface_name
                                /\ l.kind = "vlan"
                                /\ l.vlan = VlanOfName(diff[k].interface_name)
                        /\ diff[k].op = "AddAddress" =>
                                apply_command(before.kernel, VPS_RT_PROTO, diff[k]).ok

\* a list that creates an interface and was applied to the end
C22_Witness ==
    /\ pc = "applied"
    /\ \E j, k \in 1..Len(diff) :
            /\ j < k
            /\ diff[j].op = "AddInterface"
            /\ diff[k].op = "AddRoute"
            /\ diff[k].interface_name = diff[j].i.name
            /\ \E l \in Range(kernel.links) :
                    /\ l.name = diff[j].i.name
                    /\ l.index \notin {m.index : m \in Range(kernel0.links)}
                    /\ \E r \in Range(kernel.routes) : r.oif = l.index
    /\ \E k \in 1..Len(diff) :
            TargetsInterface(diff[k]) /\ diff[k].interface_name \in KeptNames

---------------------------------------------------------------------------
(* C23. A route that AddRoute creates carries the protocol the applier was  *)
(* given; the collector, given the same protocol, has it in its next State  *)
(* on the interface it was added to, and the next reconcile neither adds    *)
(* it again nor removes it while the tenant list is the same.               *)

RouteAdditions == {k \in 1..Len(diff) : diff[k].op = "AddRoute"}

\* the route of the State st that the AddRoute c has made
CollectedFor(st, k, c) ==
    {r \in Range(st.routes) :
        /\ r.destination = c.destination
        /\ r.destination_prefix_length = c.destination_prefix_length
        /\ \E l \in Range(k.links) :
                l.name = c.interface_name /\ l.index = r.interface}

C23_AddedRoutesAreCollected ==
    (AfterReconcile /\ RouteAdditions # {}) =>
        \A p \in {VPS_RT_PROTO, VPS_RT_PROTO + 1} :
            LET applied == apply_diff(kernel0, p, diff)
                next == get_state(applied.kernel, p)
                other == get_state(applied.kernel, IF p = VPS_RT_PROTO
                                                   THEN VPS_RT_PROTO + 1
                                                   ELSE VPS_RT_PROTO)
                again == make_diff(applied.kernel, VPS_INTERFACE, target, next).diff
            IN  applied.ok =>
                    \A k \in RouteAdditions :
                        LET made == CollectedFor(next, applied.kernel, diff[k])
                        IN  /\ made # {}
                            /\ \A r \in made : r.message.protocol = p
                            /\ CollectedFor(other, applied.kernel, diff[k]) = {}
                            /\ (p = VPS_RT_PROTO /\ DistinctVlans(target)) =>
                                    \A n \in 1..Len(again) :
                                        /\ again[n].op = "AddRoute" =>
                                                again[n].destination # diff[k].destination
                                        /\ again[n].op = "RemoveRoute" =>
                                                \A r \in made : again[n].msg # r.message

\* applied lists with an IPv4 and an IPv6 AddRoute, on an old and a new interface
C23_Witness ==
    /\ pc = "applied"
    /\ \E j, k \in RouteAdditions :
            /\ diff[j].destination.v = "V4"
            /\ diff[k].destination.v = "V6"
            /\ diff[j].interface_name \in KeptNames
            /\ diff[k].interface_name \notin KeptNames
    /\ \A k \in RouteAdditions :
            CollectedFor(get_state(kernel, VPS_RT_PROTO), kernel, diff[k]) # {}

---------------------------------------------------------------------------
(* C24. A tenant without public addresses, the field absent or the list     *)
(* empty, gets no AddRoute /32: without an interface its operations are     *)
(* AddInterface, AddAddress /31 and AddRoute /64 and no more; with a kept   *)
(* interface the additions are at most AddAddress /31 and AddRoute /64.     *)

NoPublic == {t \in 1..Len(target) : PublicList(target[t]) = <<>>}

\* the name the tenant's operations carry
TenantName(t) ==
    IF t \in Matched THEN KeptInterface(t).name
    ELSE VpsName(CounterStart + RankUnmatched(t) - 1)

AdditionsVia(name) == SelectSeq(diff, LAMBDA c : IsAdd(c) /\ NameOf(c) = name)

C24_NoPublicAddresses ==
    (AfterReconcile /\ DistinctVlans(target)) =>
        \A t \in NoPublic :
            LET name == TenantName(t)
                adds == AdditionsVia(name)
                address == [op |-> "AddAddress",
                            address |-> [v |-> "V4", ip |-> target[t].v4_addr],
                            prefix_length |-> 31, interface_name |-> name]
                prefix == RouteAddition("V6", target[t].v6_prefix, 64, name)
            IN  /\ \A k \in 1..Len(adds) :
                        adds[k].op = "AddRoute" => adds[k].destination.v = "V6"
                /\ t \in Unmatched =>
                        /\ Len(adds) = 3
                        /\ adds[1].op = "AddInterface"
                        /\ adds[1].i.vlan = target[t].vlan
                        /\ adds[2] = address
                        /\ adds[3] = prefix
                /\ t \in Matched =>
                        adds \in {<<>>, <<address>>, <<prefix>>, <<address, prefix>>}

\* a tenant with an empty list and no interface, next to a tenant with two
\* public addresses
C24_Witness ==
    /\ pc = "diffed"
    /\ DistinctVlans(target)
    /\ \E t \in NoPublic \cap Unmatched :
            /\ target[t].v4_public.tag = "Many"
            /\ Len(AdditionsVia(TenantName(t))) = 3
    /\ \E t \in 1..Len(target) : Len(PublicList(target[t])) = 2

---------------------------------------------------------------------------
(* C25. When several snapshot interfaces carry a tenant's VLAN id, the      *)
(* first in snapshot order is kept and assigned and each of the others      *)
(* gets a RemoveInterface; after a list applied to the end the kernel has   *)
(* at most one managed interface per VLAN id.                               *)

ManagedLinks(k) == {l \in Range(k.links) : ~Foreign(l)}

C25_OnePerVlan ==
    /\ AfterReconcile =>
            \A t \in Matched :
                /\ interface_states[t].name = KeptInterface(t).name
                /\ InterfaceRemovalsOf(KeptInterface(t).index) = {}
                /\ \A i \in SnapshotWithVlan(target[t].vlan) :
                        i # KeptInterface(t) =>
                            /\ i.index > KeptInterface(t).index
                            /\ Cardinality(InterfaceRemovalsOf(i.index)) = 1
    /\ (pc = "applied" /\ DistinctVlans(target)) =>
            /\ \A a, b \in ManagedLinks(kernel) : a.vlan = b.vlan => a = b
            /\ \A t \in Matched :
                    \E l \in ManagedLinks(kernel) :
                        l.index = KeptInterface(t).index /\ l.vlan = target[t].vlan

\* vps1 and vps7 both carry VLAN 4000 and a tenant has it
C25_Witness ==
    /\ pc = "applied"
    /\ DistinctVlans(target)
    /\ \E t \in Matched :
            /\ Cardinality(SnapshotWithVlan(target[t].vlan)) = 2
            /\ Cardinality({l \in ManagedLinks(kernel) : l.vlan = target[t].vlan}) = 1
            /\ Cardinality({l \in ManagedLinks(kernel0) : l.vlan = target[t].vlan}) = 2

---------------------------------------------------------------------------
(* C26. With distinct VLAN ids in the tenant list, no list holds two        *)
(* additions of the same kind with the same interface name and the same     *)
(* address or destination and prefix length, also when a public list        *)
(* repeats an address.                                                      *)

AdditionKey(c) ==
    CASE c.op = "AddInterface" -> <<c.op, c.i.name>>
      [] c.op = "AddAddress" -> <<c.op, c.interface_name, c.address, c.prefix_length>>
      [] c.op = "AddRoute" -> <<c.op, c.interface_name, c.destination,
                               c.destination_prefix_length>>

C26_NoDuplicateAdditions ==
    (AfterReconcile /\ DistinctVlans(target)) =>
        \A j, k \in 1..Len(diff) :
            (IsAdd(diff[j]) /\ IsAdd(diff[k]) /\ AdditionKey(diff[j]) = AdditionKey(diff[k]))
                => j = k

---------------------------------------------------------------------------
(* C27. With distinct VLAN ids in the tenant list, nothing is removed and   *)
(* added again by one list: no RemoveAddress and AddAddress of the same     *)
(* interface, address and prefix length, no RemoveRoute and AddRoute of the *)
(* same interface, destination and prefix length, and no interface removed  *)
(* while a tenant with its VLAN id gets an AddInterface.                    *)

\* the index a name of the list stands for in the snapshot, 0 for a new name
SnapshotIndexOf(name) ==
    LET hits == {i \in Range(state.interfaces) : i.name = name}
    IN  IF hits = {} THEN 0 ELSE (CHOOSE i \in hits : TRUE).index

SnapshotAddress(msg) ==
    CHOOSE a \in Range(state.addresses) : a.message = msg

SnapshotRoute(msg) ==
    CHOOSE r \in Range(state.routes) : r.message = msg

C27_NothingRemovedAndAdded ==
    (AfterReconcile /\ DistinctVlans(target)) =>
        \A j, k \in 1..Len(diff) :
            /\ (diff[j].op = "RemoveAddress" /\ diff[k].op = "AddAddress") =>
                    ~ /\ SnapshotAddress(diff[j].msg).interface
                            = SnapshotIndexOf(diff[k].interface_name)
                      /\ SnapshotAddress(diff[j].msg).address = diff[k].address
                      /\ SnapshotAddress(diff[j].msg).prefix_length = diff[k].prefix_length
            /\ (diff[j].op = "RemoveRoute" /\ diff[k].op = "AddRoute") =>
                    ~ /\ SnapshotRoute(diff[j].msg).interface
                            = SnapshotIndexOf(diff[k].interface_name)
                      /\ SnapshotRoute(diff[j].msg).destination = diff[k].destination
                      /\ SnapshotRoute(diff[j].msg).destination_prefix_length
                            = diff[k].destination_prefix_length
            /\ (diff[j].op = "RemoveInterface" /\ diff[k].op = "AddInterface") =>
                    \A i \in Range(state.interfaces) :
                        i.index = diff[j].index => i.vlan # diff[k].i.vlan

\* removals and additions of all three kinds in one list, with an address of
\* the wrong prefix length replaced
C27_Witness ==
    /\ pc = "diffed"
    /\ DistinctVlans(target)
    /\ \E j, k \in 1..Len(diff) :
            /\ diff[j].op = "RemoveAddress"
            /\ diff[k].op = "AddAddress"
            /\ SnapshotAddress(diff[j].msg).address = diff[k].address
            /\ SnapshotAddress(diff[j].msg).interface = SnapshotIndexOf(diff[k].interface_name)
    /\ \E j, k \in 1..Len(diff) :
            /\ diff[j].op = "RemoveRoute"
            /\ diff[k].op = "AddRoute"
            /\ SnapshotRoute(diff[j].msg).interface = SnapshotIndexOf(diff[k].interface_name)

---------------------------------------------------------------------------
(* C28. An interface is matched to a tenant by its VLAN id alone: one whose *)
(* parent link is not the link the configured parent name resolves to is    *)
(* kept and assigned all the same, and the tenant gets neither a            *)
(* RemoveInterface nor an AddInterface.                                     *)

OffParent == {t \in Matched : KeptInterface(t).link # ParentIndex}

C28_MatchedByVlanAlone ==
    AfterReconcile =>
        \A t \in OffParent :
            /\ interface_states[t] = [name |-> KeptInterface(t).name, vps |-> target[t]]
            /\ InterfaceRemovalsOf(KeptInterface(t).index) = {}
            /\ \A k \in AllocatedAt : diff[k].i.vlan # target[t].vlan
            /\ \A k \in 1..Len(diff) :
                    (IsAdd(diff[k]) /\ VlanOfName(NameOf(diff[k])) = target[t].vlan)
                        => NameOf(diff[k]) = KeptInterface(t).name

\* vps3 sits on eth0.9 and carries the VLAN id of a tenant that needs additions
C28_Witness ==
    /\ pc = "applied"
    /\ \E t \in OffParent :
            /\ Cardinality(SnapshotWithVlan(target[t].vlan)) = 1
            /\ AdditionsVia(KeptInterface(t).name) # <<>>
            /\ \E l \in Range(kernel.links) :
                    /\ l.index = KeptInterface(t).index
                    /\ l.link # ParentIndex
    /\ AllocatedAt # {}

=============================================================================
